---- MODULE Spec2Model ----
(***************************************************************************)
(* Resumable transfer orchestrator of SeedUp: the download-session         *)
(* lifecycle of torrent_downloader.py and the recursive upload walk of     *)
(* gdrive_uploader.py, as state machines.                                  *)
(***************************************************************************)
EXTENDS Integers, Sequences, FiniteSets, TLC

(***************************************************************************)
(* Bounds of the model.                                                    *)
(***************************************************************************)
\* engine progress events the transfer engine may make over all calls
MaxProgress == 2
\* download_torrent invocations in one behaviour
MaxCalls == 2
\* longest duration, in seconds, of one iteration of a polling loop
MaxIter == 2
\* largest id of an object the remote store holds before the first run
MaxInitialId == 5
\* largest size, in bytes, of a file handed to upload_file
MaxSize == 3
\* largest download rate, in bytes per second, of a status snapshot
MaxRate == 2

(***************************************************************************)
(* Constants of config.py.                                                 *)
(***************************************************************************)
MAX_RETRIES == 3
RETRY_DELAY == 2
MAX_WORKERS == 3

\* torrent_downloader.py line 164: the period of the save test, in seconds
CheckpointPeriod == 10

(***************************************************************************)
(* Session Store: the session file holds bytes (integers).                 *)
(***************************************************************************)
\* lt.bencode(session.save_state()): the state n as the bytes of "d<n>e"
Bencode(n) == <<100, n, 101>>

\* whether lt.bdecode accepts the data
WellFormed(data) == Len(data) = 3 /\ data[1] = 100 /\ data[3] = 101

\* lt.bdecode on accepted data
Bdecode(data) == data[2]

\* a session file that does not exist
NoFile == [exists |-> FALSE, data |-> <<>>]

\* the state of lt.session(): a fresh engine session
FreshSession == 0

\* contents a session file can be found with before a call
CorruptData == {<< 120 >>, << 100, 1 >>}
FileContents == {<<>>} \cup CorruptData \cup {Bencode(n) : n \in 0..MaxProgress}
SessionFiles == {NoFile} \cup {[exists |-> TRUE, data |-> d] : d \in FileContents}

\* save_session: open(session_file, "wb") and write the bencoded state
save_session(s) == [exists |-> TRUE, data |-> Bencode(s)]

\* the exception raised by the body of load_session's try block, or "none"
LoadRaises(file) ==
    IF file.data = <<>> THEN "ValueError"
    ELSE IF ~WellFormed(file.data) THEN "RuntimeError"
    ELSE "none"

\* the except clause of load_session, with ValueError left out
LoadCaughtNoValueError == {"RuntimeError"}

\* the exceptions load_session's except clause catches
LoadCaught == {"RuntimeError", "ValueError"}

\* load_session: the session returned, the file left behind, the exception
\* that reaches the caller ("none" when it returns) and the line logged
load_session(file) ==
    IF ~file.exists
    THEN [ses |-> FreshSession, file |-> file, exc |-> "none", log |-> "none"]
    ELSE LET e == LoadRaises(file) IN
         IF e = "none"
         THEN [ses |-> Bdecode(file.data), file |-> file, exc |-> "none",
               log |-> "Session loaded"]
         ELSE IF e \in LoadCaught
         THEN [ses |-> FreshSession, file |-> NoFile, exc |-> "none",
               log |-> "Failed to load session"]
         ELSE [ses |-> FreshSession, file |-> file, exc |-> e, log |-> "none"]

\* get_download_status: whether a session file exists
get_download_status(file) == file.exists

\* os.remove(session_file) guarded by os.path.exists, absence is no error
remove_session(file) == IF file.exists THEN NoFile ELSE file

(***************************************************************************)
(* Paths and source descriptors, as sequences of tokens.                   *)
(***************************************************************************)
\* str.startswith for one token
StartsWith(s, p) == Len(s) >= 1 /\ s[1] = p

\* str.endswith for one token
EndsWith(s, p) == Len(s) >= 1 /\ s[Len(s)] = p

\* os.path.join(a, b) of posixpath
Join(a, b) ==
    IF StartsWith(b, "/") THEN b
    ELSE IF a = <<>> \/ EndsWith(a, "/") THEN a \o b
    ELSE a \o <<"/">> \o b

Sources == { <<"magnet:", "x">>, <<"f", ".torrent">>, <<"magnet:", ".torrent">>,
             <<"x">>, <<".torrent", "x">>, <<"x", "magnet:">> }
DownloadPaths == { <<"downloads">>, <<"out", "/">> }
Names == { <<"movie">>, <<"iso">> }
\* what the file system holds at a .torrent path
TorrentFiles == {"missing", "unreadable", "good"}
\* the cases of it tried for a source: only a path ending in ".torrent" is
\* ever looked up (line 88)
FilesAt(src) == IF EndsWith(src, ".torrent") THEN TorrentFiles ELSE {"missing"}

(***************************************************************************)
(* The local trees and the remote store of the upload orchestrator.        *)
(***************************************************************************)
\* local paths an upload can be asked for
Roots == {"D1", "D2", "f", "gone"}
Nodes == {"D1", "D1/a", "D1/b", "D2", "D2/S", "D2/S/c", "D2/S/e", "D2/a", "f", "gone",
          "M", "M/movie.mp4", "M/notes.txt"}

\* os.path.isfile / os.path.isdir / os.path.exists of a path
Kind(n) ==
    CASE n \in {"D1", "D2", "D2/S", "M"} -> "dir"
      [] n = "gone" -> "missing"
      [] OTHER -> "file"

\* os.listdir of a directory, in the order it lists
Children(n) ==
    CASE n = "D1" -> <<"D1/a", "D1/b">>
      [] n = "D2" -> <<"D2/S", "D2/a">>
      [] n = "D2/S" -> <<"D2/S/c", "D2/S/e">>
      [] n = "M" -> <<"M/movie.mp4", "M/notes.txt">>
      [] OTHER -> <<>>

\* os.path.basename of a path
Basename(n) ==
    CASE n \in {"D1/a", "D2/a"} -> "a"
      [] n = "D1/b" -> "b"
      [] n = "D2/S" -> "S"
      [] n = "D2/S/c" -> "c"
      [] n = "D2/S/e" -> "e"
      [] n = "M/movie.mp4" -> "movie.mp4"
      [] n = "M/notes.txt" -> "notes.txt"
      [] OTHER -> n

\* the directory a path lies in, "" for a root
Dirname(n) ==
    CASE n \in {"D1/a", "D1/b"} -> "D1"
      [] n \in {"D2/S", "D2/a"} -> "D2"
      [] n \in {"D2/S/c", "D2/S/e"} -> "D2/S"
      [] n \in {"M/movie.mp4", "M/notes.txt"} -> "M"
      [] OTHER -> ""

\* the paths below a path, the path itself included
RECURSIVE Subtree(_)
Subtree(n) == {n} \cup UNION {Subtree(Children(n)[i]) : i \in 1..Len(Children(n))}

\* the files of the tree at a path
FilesOf(n) == {m \in Subtree(n) : Kind(m) = "file"}

\* count_items(local_path)['files']
RECURSIVE SumFiles(_, _)
SumFiles(ch, i) == IF i > Len(ch) THEN 0
                   ELSE (IF Kind(ch[i]) = "file" THEN 1 ELSE SumFiles(Children(ch[i]), 1))
                        + SumFiles(ch, i + 1)
count_items(n) == IF Kind(n) = "file" THEN 1 ELSE SumFiles(Children(n), 1)

\* the remote folder id the caller passes as parent_id
RootId == 1

\* objects the remote store may hold before the first run
Obj(i, p, nm, fo) == [id |-> i, parent |-> p, name |-> nm, folder |-> fo]
Universe(r) ==
    CASE r = "D1" -> {Obj(2, RootId, "D1", TRUE), Obj(3, 2, "a", FALSE)}
      [] r = "D2" -> {Obj(2, RootId, "D2", TRUE), Obj(3, 2, "S", TRUE),
                      Obj(4, 3, "c", FALSE), Obj(5, 2, "a", FALSE)}
      [] r = "f" -> {Obj(2, RootId, "f", FALSE)}
      [] r = "M" -> {Obj(2, RootId, "M", TRUE), Obj(3, 2, "movie.mp4", FALSE)}
      [] OTHER -> {}
InitialRemotes(r) ==
    {R \in SUBSET Universe(r) :
        \A o \in R : o.parent = RootId \/ \E q \in R : q.id = o.parent}

\* the first id the remote store hands out
FirstNewId == MaxInitialId + 1

\* the ids files().list(q=name and parent, not trashed) can return first
FileMatches(rem, nm, p) == {o.id : o \in {x \in rem : x.name = nm /\ x.parent = p}}

\* the ids the folder query (mimeType folder) can return first
FolderMatches(rem, nm, p) ==
    {o.id : o \in {x \in rem : x.name = nm /\ x.parent = p /\ x.folder}}

\* line 377 with the lookup result ignored
SkipCheckNever(skip, found) == 0

\* line 377: existing = file_exists(...) if skip_existing else None
SkipCheck(skip, found) == IF skip THEN found ELSE 0

\* how a files().list call can end
LookupOutcomes == {"ok", "HttpError", "Exception"}
\* except clauses that let every failure of the lookup out
LookupRaisesAll(out) == out # "ok"

\* lines 164-166 and 196-198: except HttpError returns None, any other
\* exception of the lookup leaves file_exists / folder_exists
LookupRaises(out) == out = "Exception"

\* how a files().create call can end
CreateOutcomes == {"ok", "fail"}

\* results = {'success': [], 'failed': [], 'skipped': []}
NoResults == [success |-> <<>>, failed |-> <<>>, skipped |-> <<>>]

(***************************************************************************)
(* Download Monitor: download_torrent as a state machine.                  *)
(***************************************************************************)
VARIABLES
    pc,            \* position of download_torrent
    source,        \* argument source
    download_path, \* argument download_path
    auto_resume,   \* argument auto_resume
    ses,           \* state of the engine session held by the call
    sessionFile,   \* the file at session_file
    hasMetadata,   \* handle.status().has_metadata
    seeding,       \* handle.status().state == seeding
    engineName,    \* handle.status().name
    torrent_name,  \* local torrent_name
    returned,      \* how the call ended: "pending", "None", "path", "raised"
    result,        \* the path returned, <<>> otherwise
    clock,         \* int(time.time()) % 10
    ncalls,        \* calls made so far
    loadLog,       \* what load_session logged in this call
    torrentFile,   \* what the file system held at the source path in this call
    addAccepted    \* whether ses.add_torrent takes the job of this call

dvars == <<pc, source, download_path, auto_resume, ses, sessionFile, hasMetadata,
           seeding, engineName, torrent_name, returned, result, clock, ncalls,
           loadLog, torrentFile, addAccepted>>

VARIABLES
    root,          \* local_path of the outermost call
    skip_existing, \* self.skip_existing
    remote,        \* the objects of the remote store
    nextId,        \* the id the remote store hands out next
    stack,         \* the activations of upload_to_drive, innermost last
    ustatus,       \* "running", "done" (returned) or "raised"
    final,         \* the result the outermost call returned
    folder_id,     \* folder_id of each directory: -1 not reached, 0 None
    log,           \* the calls made on drive_service, with their outcomes
    run,           \* 1 for the first run, 2 for the run repeated after it
    prev           \* the result of the first run

uvars == <<root, skip_existing, remote, nextId, stack, ustatus, final, folder_id,
           log, run, prev>>

VARIABLES
    xpc,               \* position of upload_file: "start", "chunks", "returned"
    xskip,             \* self.skip_existing
    xexisting,         \* whether file_exists hands back an existing file
    total_size,        \* os.path.getsize(local_path)
    failPlan,          \* how many attempts of the chunked upload fail first
    attempt,           \* attempts of the chunked upload made
    waits,             \* the backoff sleeps made between attempts
    previous_uploaded, \* local previous_uploaded
    pbar,              \* the cumulative count of the progress bar
    xresult            \* "pending", "id" (a file id) or "None"

xvars == <<xpc, xskip, xexisting, total_size, failPlan, attempt, waits,
           previous_uploaded, pbar, xresult>>

VARIABLES
    kwargs,            \* the keyword arguments upload_to_google_drive is given
    ledger             \* the records of the progress file (PROGRESS_FILE)

ovars == <<kwargs, ledger>>

VARIABLES
    mpc,               \* position of main: "start", "download_torrent",
                       \* "upload_to_google_drive", "exited"
    command,           \* args.command, "none" when no command is given
    args,              \* the parsed arguments
    ended,             \* why the operation ended: "success", "failure",
                       \* "interrupt", or "none" while it runs
    exit_code,         \* what main returns, -1 while it runs
    message            \* the last line main or its handler printed or logged

mvars == <<mpc, command, args, ended, exit_code, message>>

VARIABLES
    lpc,               \* position of the polling loop: "polling", "left"
    lnow,              \* int(time.time()) % 10 at the top of the loop
    since,             \* seconds since save_session was last called, or
                       \* since the loop was entered
    snapshot,          \* s = handle.status() of the current pass
    eta_str            \* the ETA shown by the current pass

lvars == <<lpc, lnow, since, snapshot, eta_str>>

vars == <<dvars, uvars, xvars, ovars, mvars, lvars>>

\* what the steps of the download monitor leave alone
othersD == <<uvars, xvars, ovars, mvars, lvars>>

\* what the steps of the upload orchestrator leave alone
othersU == <<dvars, xvars, ovars, mvars, lvars>>

\* what the steps of upload_file leave alone
othersX == <<dvars, uvars, ovars, mvars, lvars>>

\* what the steps of main leave alone
othersM == <<dvars, uvars, xvars, ovars, lvars>>

\* what the passes of the polling loop leave alone
othersL == <<dvars, uvars, xvars, ovars, mvars>>

\* the keyword arguments main.py passes; upload_to_google_drive reads
\* skip_existing and drive_service of them (lines 448-449)
Kwargs == [dry_run : BOOLEAN, include_patterns : {<<>>, <<"*.mp4">>},
           exclude_patterns : {<<>>, <<"*.txt">>}, use_progress : BOOLEAN,
           parallel : BOOLEAN]

\* a call that passes none of them
NoKwargs == [dry_run |-> FALSE, include_patterns |-> <<>>,
             exclude_patterns |-> <<>>, use_progress |-> FALSE,
             parallel |-> FALSE]

\* no options and no progress file
ORest ==
    /\ kwargs = NoKwargs
    /\ ledger = {}

\* main not running
MRest ==
    /\ mpc = "exited"
    /\ command = "none"
    /\ args = [upload |-> FALSE, folder_id |-> FALSE, no_resume |-> FALSE,
               patterns |-> FALSE]
    /\ ended = "failure"
    /\ exit_code = 1
    /\ message = "Error: No command specified"

\* eta_str before any pass of the loop
NoEta == [fmt |-> "none", a |-> 0, b |-> 0]

\* a status with nothing wanted and nothing arriving
NoStatus == [total_wanted |-> 0, total_done |-> 0, download_rate |-> 0]

\* no polling loop under way
LRest ==
    /\ lpc = "left"
    /\ lnow = 0
    /\ since = 0
    /\ snapshot = NoStatus
    /\ eta_str = NoEta

\* the download monitor at rest
DRest ==
    /\ pc = "idle"
    /\ source = <<"x">>
    /\ download_path = <<"downloads">>
    /\ auto_resume = TRUE
    /\ ses = FreshSession
    /\ sessionFile = NoFile
    /\ hasMetadata = FALSE
    /\ seeding = FALSE
    /\ engineName = <<>>
    /\ torrent_name = <<>>
    /\ returned = "pending"
    /\ result = <<>>
    /\ clock = 0
    /\ ncalls = 0
    /\ loadLog = "none"
    /\ torrentFile = "missing"
    /\ addAccepted = TRUE

\* the upload orchestrator at rest
URest ==
    /\ root = "gone"
    /\ skip_existing = TRUE
    /\ remote = {}
    /\ nextId = FirstNewId
    /\ stack = <<>>
    /\ ustatus = "done"
    /\ final = NoResults
    /\ folder_id = [n \in Nodes |-> -1]
    /\ log = {}
    /\ run = 2
    /\ prev = NoResults

\* upload_file at rest
XRest ==
    /\ xpc = "returned"
    /\ xskip = TRUE
    /\ xexisting = FALSE
    /\ total_size = 0
    /\ failPlan = 0
    /\ attempt = 0
    /\ waits = <<>>
    /\ previous_uploaded = 0
    /\ pbar = 0
    /\ xresult = "None"

\* positions at which the job is in the engine
Active == {"Submitted", "AwaitingMetadata", "Transferring"}

\* positions at which a call is over
Terminal == {"Failed", "Completed", "Interrupted"}

\* line 70 without its test of auto_resume
OpenSessionAlwaysLoads(resume, file) == load_session(file)

\* the session a call starts with (line 70)
OpenSession(resume, file) ==
    IF resume THEN load_session(file)
    ELSE [ses |-> FreshSession, file |-> file, exc |-> "none", log |-> "none"]

\* lines 83-111 without the os.path.exists test of line 88
SourceAcceptedUnchecked(src, tf, addOk) ==
    IF StartsWith(src, "magnet:") THEN addOk
    ELSE IF EndsWith(src, ".torrent") THEN tf # "unreadable" /\ addOk
    ELSE FALSE

\* lines 83-111: whether the source reaches ses.add_torrent and is accepted
SourceAccepted(src, tf, addOk) ==
    IF StartsWith(src, "magnet:") THEN addOk
    ELSE IF EndsWith(src, ".torrent") THEN tf = "good" /\ addOk
    ELSE FALSE

\* lines 83-100: a .torrent file hands its torrent_info to the engine
CarriesInfo(src) == ~StartsWith(src, "magnet:") /\ EndsWith(src, ".torrent")

\* the except KeyboardInterrupt clause without its save_session
OnInterruptNoSave(s, file) == file

\* lines 169-171: the except KeyboardInterrupt clause of the polling loop
OnInterrupt(s, file) == save_session(s)

\* lines 177-182 without the removal
OnCompleteKeep(file) == file

\* lines 177-182: the session file after a completed download
OnComplete(file) == remove_session(file)

\* lines 164-165: the periodic save of the polling loop
SaveDue(t) == t % CheckpointPeriod = 0
Checkpoint(t, s, file) == IF SaveDue(t) THEN save_session(s) ELSE file

DInit ==
    /\ pc = "idle"
    /\ source = <<"x">>
    /\ download_path = <<"downloads">>
    /\ auto_resume = TRUE
    /\ ses = FreshSession
    /\ sessionFile \in SessionFiles
    /\ hasMetadata = FALSE
    /\ seeding = FALSE
    /\ engineName = <<>>
    /\ torrent_name = <<>>
    /\ returned = "pending"
    /\ result = <<>>
    /\ clock \in 0..9
    /\ ncalls = 0
    /\ loadLog = "none"
    /\ torrentFile = "missing"
    /\ addAccepted = TRUE
    /\ URest
    /\ XRest
    /\ ORest
    /\ MRest
    /\ LRest

\* download_torrent, lines 65-111: from the call to the job being submitted
Call(src, path, resume, tf, addOk, nm) ==
    /\ pc \in {"idle"} \cup Terminal
    /\ ncalls < MaxCalls
    /\ ncalls' = ncalls + 1
    /\ source' = src
    /\ torrentFile' = tf
    /\ addAccepted' = addOk
    /\ download_path' = path
    /\ auto_resume' = resume
    /\ LET ld == OpenSession(resume, sessionFile) IN
       /\ ses' = ld.ses
       /\ sessionFile' = ld.file
       /\ loadLog' = ld.log
       /\ IF ld.exc # "none"
          THEN /\ pc' = "Failed"
               /\ returned' = "raised"
               /\ UNCHANGED <<hasMetadata, engineName>>
          ELSE IF ~SourceAccepted(src, tf, addOk)
          THEN /\ pc' = "Failed"
               /\ returned' = "None"
               /\ UNCHANGED <<hasMetadata, engineName>>
          ELSE /\ pc' = "Submitted"
               /\ returned' = "pending"
               /\ hasMetadata' = CarriesInfo(src)
               /\ engineName' = nm
    /\ seeding' = FALSE
    /\ torrent_name' = <<>>
    /\ result' = <<>>
    /\ UNCHANGED clock
    /\ UNCHANGED othersD

\* line 114: the call reaches the metadata wait
EnterMetadataWait ==
    /\ pc = "Submitted"
    /\ pc' = "AwaitingMetadata"
    /\ UNCHANGED <<source, download_path, auto_resume, ses, sessionFile, hasMetadata,
                   seeding, engineName, torrent_name, returned, result, clock, ncalls, loadLog,
                   torrentFile, addAccepted>>
    /\ UNCHANGED othersD

\* lines 115-119: one test of the metadata loop, sleeping or leaving it
MetadataPoll(d) ==
    /\ pc = "AwaitingMetadata"
    /\ IF hasMetadata
       THEN /\ torrent_name' = engineName
            /\ pc' = "Transferring"
            /\ UNCHANGED clock
       ELSE /\ clock' = (clock + d) % 10
            /\ UNCHANGED <<torrent_name, pc>>
    /\ UNCHANGED <<source, download_path, auto_resume, ses, sessionFile, hasMetadata,
                   seeding, engineName, returned, result, ncalls, loadLog,
                   torrentFile, addAccepted>>
    /\ UNCHANGED othersD

\* a loop test that lets the loop end at once
LoopDoneAtOnce(sd) == TRUE

\* line 126: the loop ends when the state of the job is seeding
LoopDone(sd) == sd

\* lines 126-167 and 174-186: one test of the polling loop
TransferPoll(d) ==
    /\ pc = "Transferring"
    /\ IF LoopDone(seeding)
       THEN /\ sessionFile' = OnComplete(sessionFile)
            /\ result' = Join(download_path, torrent_name)
            /\ returned' = "path"
            /\ pc' = "Completed"
            /\ UNCHANGED clock
       ELSE /\ sessionFile' = Checkpoint(clock, ses, sessionFile)
            /\ clock' = (clock + d) % 10
            /\ UNCHANGED <<result, returned, pc>>
    /\ UNCHANGED <<source, download_path, auto_resume, ses, hasMetadata,
                   seeding, engineName, torrent_name, ncalls, loadLog,
                   torrentFile, addAccepted>>
    /\ UNCHANGED othersD

\* a KeyboardInterrupt: caught at lines 169-172 inside the polling loop,
\* propagating to the caller from anywhere else
Interrupt ==
    /\ pc \in Active
    /\ pc' = "Interrupted"
    /\ IF pc = "Transferring"
       THEN /\ sessionFile' = OnInterrupt(ses, sessionFile)
            /\ returned' = "None"
       ELSE /\ returned' = "raised"
            /\ UNCHANGED sessionFile
    /\ UNCHANGED <<source, download_path, auto_resume, ses, hasMetadata,
                   seeding, engineName, torrent_name, result, clock, ncalls, loadLog,
                   torrentFile, addAccepted>>
    /\ UNCHANGED othersD

\* the engine obtains the metadata of the job
EngineMetadata ==
    /\ pc \in Active
    /\ ~hasMetadata
    /\ hasMetadata' = TRUE
    /\ UNCHANGED <<pc, source, download_path, auto_resume, ses, sessionFile,
                   seeding, engineName, torrent_name, returned, result, clock, ncalls, loadLog,
                   torrentFile, addAccepted>>
    /\ UNCHANGED othersD

\* the engine's session state changes
EngineProgress ==
    /\ pc \in Active
    /\ ses < MaxProgress
    /\ ses' = ses + 1
    /\ UNCHANGED <<pc, source, download_path, auto_resume, sessionFile, hasMetadata,
                   seeding, engineName, torrent_name, returned, result, clock, ncalls, loadLog,
                   torrentFile, addAccepted>>
    /\ UNCHANGED othersD

\* the job becomes fully transferred
EngineSeeding ==
    /\ pc \in Active
    /\ hasMetadata
    /\ ~seeding
    /\ seeding' = TRUE
    /\ UNCHANGED <<pc, source, download_path, auto_resume, ses, sessionFile, hasMetadata,
                   engineName, torrent_name, returned, result, clock, ncalls, loadLog,
                   torrentFile, addAccepted>>
    /\ UNCHANGED othersD

DNext ==
    \/ \E src \in Sources, path \in DownloadPaths, resume \in BOOLEAN,
          addOk \in BOOLEAN, nm \in Names :
            \E tf \in FilesAt(src) : Call(src, path, resume, tf, addOk, nm)
    \/ EnterMetadataWait
    \/ \E d \in 1..MaxIter : MetadataPoll(d)
    \/ \E d \in 1..MaxIter : TransferPoll(d)
    \/ Interrupt
    \/ EngineMetadata
    \/ EngineProgress
    \/ EngineSeeding


(***************************************************************************)
(* Upload Orchestrator: upload_to_drive as a stack of activations.          *)
(***************************************************************************)

\* an activation upload_to_drive(local_path, parent_id) at its first line
Frame(n, p) == [path |-> n, parent_id |-> p, at |-> "enter", folder_id |-> 0,
                idx |-> 1, results |-> NoResults]

Top == stack[Len(stack)]
SetTop(f) == [stack EXCEPT ![Len(stack)] = f]
Logged(op, out) == log \cup {[run |-> run, op |-> op, node |-> Top.path,
                              parent |-> Top.parent_id, out |-> out]}

\* results[key].append(local_path) in an activation
Record(f, key) ==
    [f EXCEPT !.results = [f.results EXCEPT ![key] = Append(f.results[key], f.path)]]

\* sub_results extended into results, lines 400-402
Merge(r, sub) == [success |-> r.success \o sub.success,
                  failed |-> r.failed \o sub.failed,
                  skipped |-> r.skipped \o sub.skipped]

\* an exception leaves the innermost activation: the loop of the enclosing
\* directory catches it at lines 403-405, the outermost call lets it out
Unwind(st) ==
    LET rest == SubSeq(st, 1, Len(st) - 1) IN
    IF rest = <<>> THEN rest
    ELSE [rest EXCEPT ![Len(rest)] = [Record(rest[Len(rest)], "failed") EXCEPT !.at = "return"]]

Running == ustatus = "running" /\ stack # <<>>

UInit ==
    /\ root \in Roots
    /\ skip_existing \in BOOLEAN
    /\ remote \in InitialRemotes(root)
    /\ nextId = FirstNewId
    /\ stack = <<Frame(root, RootId)>>
    /\ ustatus = "running"
    /\ final = NoResults
    /\ folder_id = [n \in Nodes |-> -1]
    /\ log = {}
    /\ run = 1
    /\ prev = NoResults
    /\ DRest
    /\ XRest
    /\ ORest
    /\ MRest
    /\ LRest

\* what a lookup hands back: an id the query matches, 0 for None
Found(matches) == IF matches = {} THEN {0} ELSE matches
LookupResult(out, m) == IF out = "ok" THEN m ELSE 0
LookupLog(out, m) == IF out # "ok" THEN out ELSE IF m = 0 THEN "absent" ELSE "found"

\* lines 361-376 and 389-391: validation, statistics, dispatch on the path
Enter ==
    /\ Running
    /\ Top.at = "enter"
    /\ stack' = SetTop(
         CASE Kind(Top.path) = "missing" -> [Record(Top, "failed") EXCEPT !.at = "return"]
           [] Kind(Top.path) = "file" ->
                [Top EXCEPT !.at = IF skip_existing THEN "file_exists" ELSE "transfer"]
           [] OTHER ->
                [Top EXCEPT !.at = IF skip_existing THEN "folder_exists" ELSE "create"])
    /\ UNCHANGED <<root, skip_existing, remote, nextId, ustatus, final, folder_id,
                   log, run, prev>>
    /\ UNCHANGED othersU

\* lines 377-380: the orchestrator's file_exists call
FileExists(out, m) ==
    /\ Running
    /\ Top.at = "file_exists"
    /\ m \in Found(FileMatches(remote, Basename(Top.path), Top.parent_id))
    /\ log' = Logged("file_exists", LookupLog(out, m))
    /\ IF LookupRaises(out)
       THEN /\ stack' = Unwind(stack)
            /\ ustatus' = IF Len(stack) = 1 THEN "raised" ELSE ustatus
       ELSE /\ stack' = SetTop(
                 IF SkipCheck(skip_existing, LookupResult(out, m)) # 0
                 THEN [Record(Top, "skipped") EXCEPT !.at = "return"]
                 ELSE [Top EXCEPT !.at = "upload_file"])
            /\ UNCHANGED ustatus
    /\ UNCHANGED <<root, skip_existing, remote, nextId, final, folder_id, run, prev>>
    /\ UNCHANGED othersU

\* lines 382-386 with 211-218: upload_file's own file_exists call
UploadFileCheck(out, m) ==
    /\ Running
    /\ Top.at = "upload_file"
    /\ m \in Found(FileMatches(remote, Basename(Top.path), Top.parent_id))
    /\ log' = Logged("upload_file_exists", LookupLog(out, m))
    /\ IF LookupRaises(out)
       THEN /\ stack' = Unwind(stack)
            /\ ustatus' = IF Len(stack) = 1 THEN "raised" ELSE ustatus
       ELSE /\ stack' = SetTop(
                 IF LookupResult(out, m) # 0
                 THEN [Record(Top, "success") EXCEPT !.at = "return"]
                 ELSE [Top EXCEPT !.at = "transfer"])
            /\ UNCHANGED ustatus
    /\ UNCHANGED <<root, skip_existing, remote, nextId, final, folder_id, run, prev>>
    /\ UNCHANGED othersU

\* lines 382-386 with 220-272: the resumable files().create of upload_file
Transfer(out) ==
    /\ Running
    /\ Top.at = "transfer"
    /\ log' = Logged("create_file", out)
    /\ IF out = "ok"
       THEN /\ remote' = remote \cup {Obj(nextId, Top.parent_id, Basename(Top.path), FALSE)}
            /\ nextId' = nextId + 1
            /\ stack' = SetTop([Record(Top, "success") EXCEPT !.at = "return"])
       ELSE /\ stack' = SetTop([Record(Top, "failed") EXCEPT !.at = "return"])
            /\ UNCHANGED <<remote, nextId>>
    /\ UNCHANGED <<root, skip_existing, ustatus, final, folder_id, run, prev>>
    /\ UNCHANGED othersU

\* lines 392 with 285-290: create_folder's folder_exists call
FolderExists(out, m) ==
    /\ Running
    /\ Top.at = "folder_exists"
    /\ m \in Found(FolderMatches(remote, Basename(Top.path), Top.parent_id))
    /\ log' = Logged("folder_exists", LookupLog(out, m))
    /\ IF LookupRaises(out)
       THEN /\ stack' = Unwind(stack)
            /\ ustatus' = IF Len(stack) = 1 THEN "raised" ELSE ustatus
            /\ UNCHANGED folder_id
       ELSE IF LookupResult(out, m) # 0
       THEN /\ stack' = SetTop([Top EXCEPT !.folder_id = m, !.at = "listdir"])
            /\ folder_id' = [folder_id EXCEPT ![Top.path] = m]
            /\ UNCHANGED ustatus
       ELSE /\ stack' = SetTop([Top EXCEPT !.at = "create"])
            /\ UNCHANGED <<ustatus, folder_id>>
    /\ UNCHANGED <<root, skip_existing, remote, nextId, final, run, prev>>
    /\ UNCHANGED othersU

\* lines 392-394, 406-407 with 292-307: the files().create of create_folder
CreateFolder(out) ==
    /\ Running
    /\ Top.at = "create"
    /\ log' = Logged("create_folder", out)
    /\ IF out = "ok"
       THEN /\ remote' = remote \cup {Obj(nextId, Top.parent_id, Basename(Top.path), TRUE)}
            /\ nextId' = nextId + 1
            /\ stack' = SetTop([Top EXCEPT !.folder_id = nextId, !.at = "listdir"])
            /\ folder_id' = [folder_id EXCEPT ![Top.path] = nextId]
       ELSE /\ stack' = SetTop([Record(Top, "failed") EXCEPT !.at = "return"])
            /\ folder_id' = [folder_id EXCEPT ![Top.path] = 0]
            /\ UNCHANGED <<remote, nextId>>
    /\ UNCHANGED <<root, skip_existing, ustatus, final, run, prev>>
    /\ UNCHANGED othersU

\* a recursive call that hands down the parent of the directory itself
ChildParentOuter(f) == f.parent_id

\* line 399: the parent the recursive call is given, the folder's own id
ChildParent(f) == f.folder_id

\* a loop that starts the calls for all the items left at once
CalleesAll(ch, idx) == SubSeq(ch, idx, Len(ch))

\* lines 397-399: the items one pass of the loop calls upload_to_drive for,
\* waiting for the call to return
Callees(ch, idx) == <<ch[idx]>>

\* lines 397-399: the loop over os.listdir calls upload_to_drive for the
\* next item, or ends
Descend ==
    /\ Running
    /\ Top.at = "listdir"
    /\ IF Top.idx <= Len(Children(Top.path))
       THEN LET items == Callees(Children(Top.path), Top.idx) IN
            stack' = stack \o [i \in 1..Len(items) |-> Frame(items[i], ChildParent(Top))]
       ELSE stack' = SetTop([Top EXCEPT !.at = "return"])
    /\ UNCHANGED <<root, skip_existing, remote, nextId, ustatus, final, folder_id,
                   log, run, prev>>
    /\ UNCHANGED othersU

\* return results: to the loop of the caller (lines 400-402) or to the
\* caller of the outermost call
Return ==
    /\ Running
    /\ Top.at = "return"
    /\ IF Len(stack) = 1
       THEN /\ final' = Top.results
            /\ ustatus' = "done"
            /\ stack' = <<>>
       ELSE /\ LET rest == SubSeq(stack, 1, Len(stack) - 1)
                   up == rest[Len(rest)]
               IN stack' = [rest EXCEPT ![Len(rest)] =
                      [up EXCEPT !.results = Merge(up.results, Top.results),
                                 !.idx = up.idx + 1]]
            /\ UNCHANGED <<final, ustatus>>
    /\ UNCHANGED <<root, skip_existing, remote, nextId, folder_id, log, run, prev>>
    /\ UNCHANGED othersU

\* the paths for which a second run is explored
RerunRoots == {"D1", "f", "gone"}

\* upload_to_drive is run again on the same path and the same parent
Rerun ==
    /\ ustatus = "done"
    /\ run = 1
    /\ run' = 2
    /\ prev' = final
    /\ stack' = <<Frame(root, RootId)>>
    /\ ustatus' = "running"
    /\ final' = NoResults
    /\ folder_id' = [n \in Nodes |-> -1]
    /\ UNCHANGED <<root, skip_existing, remote, nextId, log>>
    /\ UNCHANGED othersU

UNext ==
    \/ Enter
    \/ \E out \in LookupOutcomes, m \in 0..nextId : FileExists(out, m)
    \/ \E out \in LookupOutcomes, m \in 0..nextId : UploadFileCheck(out, m)
    \/ \E out \in CreateOutcomes : Transfer(out)
    \/ \E out \in LookupOutcomes, m \in 0..nextId : FolderExists(out, m)
    \/ \E out \in CreateOutcomes : CreateFolder(out)
    \/ Descend
    \/ Return

\* two runs in a row: the first run starts on one of RerunRoots
RInit ==
    /\ root \in RerunRoots
    /\ skip_existing \in BOOLEAN
    /\ remote \in InitialRemotes(root)
    /\ nextId = FirstNewId
    /\ stack = <<Frame(root, RootId)>>
    /\ ustatus = "running"
    /\ final = NoResults
    /\ folder_id = [n \in Nodes |-> -1]
    /\ log = {}
    /\ run = 1
    /\ prev = NoResults
    /\ DRest
    /\ XRest
    /\ ORest
    /\ MRest
    /\ LRest

\* the steps of two runs in a row
RNext == UNext \/ Rerun

\* the download monitor alone
SpecDL == DInit /\ [][DNext]_vars

\* the upload orchestrator alone, one run
SpecUL == UInit /\ [][UNext]_vars

\* the upload orchestrator run twice in a row
SpecRerun == RInit /\ [][RNext]_vars

(***************************************************************************)
(* Properties of the download monitor.                                     *)
(***************************************************************************)
\* a step that is a call of download_torrent
IsCall == ncalls' = ncalls + 1

\* a session file load_session cannot use
Unusable(file) == file.exists /\ (file.data = <<>> \/ ~WellFormed(file.data))

\* the step property of C1
C1_Step ==
    (IsCall /\ auto_resume' /\ Unusable(sessionFile))
        => (returned' # "raised" /\ ses' = load_session(NoFile).ses)

\* C1: a call that resumes over an empty or invalid session file gets the
\* session it would get with no session file, and no exception reaches it
C1_BadSessionIsFresh == [][C1_Step]_vars

C1_Witness ==
    /\ loadLog = "Failed to load session"
    /\ pc = "Submitted"
    /\ ses = FreshSession

\* the step property of C2
C2_Step ==
    (pc = "Transferring" /\ pc' = "Interrupted")
        => (sessionFile' = [exists |-> TRUE, data |-> Bencode(ses)]
            /\ returned' = "None" /\ result' = <<>>)

C3_Step ==
    (pc \in Active /\ pc' = "Interrupted")
        => sessionFile' = [exists |-> TRUE, data |-> Bencode(ses)]

\* C3: wherever a submitted job is interrupted, metadata wait included, the
\* session is written to the session file before the call is left
C3_EveryInterruptCheckpoints == [][C3_Step]_vars

StateOrder == { <<"Submitted", "AwaitingMetadata">>,
                <<"AwaitingMetadata", "Transferring">>,
                <<"Transferring", "Completed">>,
                <<"Transferring", "Interrupted">> }

\* the step property of C5
C5_Step ==
    /\ (~IsCall /\ pc' # pc) => <<pc, pc'>> \in StateOrder
    /\ (IsCall /\ pc = "Interrupted" /\ auto_resume') => ses' = ses

\* C5: within a call the states follow the order, and a call with
\* auto_resume after an interrupted one starts from the engine state the
\* interrupted call had
C5_OrderAndResume == [][C5_Step]_vars

(***************************************************************************)
(* Properties of the upload orchestrator.                                  *)
(***************************************************************************)
\* membership and number of occurrences of a path in a result list
InList(x, seq) == \E i \in 1..Len(seq) : seq[i] = x
Times(x, seq) == Cardinality({i \in 1..Len(seq) : seq[i] = x})

\* the outermost call is over
Ended == ustatus \in {"done", "raised"}

\* a call of the given kinds was made for a path in a run, with an outcome
Called(r, ops, n, outs) ==
    \E e \in log : e.run = r /\ e.op \in ops /\ e.node = n /\ e.out \in outs

Lookups == {"file_exists", "upload_file_exists", "folder_exists"}
Creates == {"create_file", "create_folder"}
AllOps == Lookups \cup Creates
AllOuts == {"found", "absent", "HttpError", "Exception", "ok", "fail"}

\* a path has an outcome in the result
HasOutcome(res, n) ==
    InList(n, res.success) \/ InList(n, res.skipped) \/ InList(n, res.failed)

\* a path is in one list only, once
OnlyIn(res, key, n) ==
    Times(n, res.success) + Times(n, res.skipped) + Times(n, res.failed) = 1
    /\ InList(n, res[key])

\* C6: the lengths of success, skipped and failed add up to the file count
\* count_items reports for the tree
C6_CountsAddUp ==
    (ustatus = "done" /\ run = 1 /\ Kind(root) # "missing") =>
        Len(final.success) + Len(final.skipped) + Len(final.failed) = count_items(root)

\* the files of the tree in the order the walk meets them
RECURSIVE WalkFiles(_, _)
WalkFiles(ch, i) ==
    IF i > Len(ch) THEN <<>>
    ELSE (IF Kind(ch[i]) = "file" THEN <<ch[i]>> ELSE WalkFiles(Children(ch[i]), 1))
         \o WalkFiles(ch, i + 1)
DiscoveryOrder(n) == IF Kind(n) = "file" THEN <<n>> ELSE WalkFiles(Children(n), 1)

\* the second run made no create call and, once over, reports every file skipped
SecondRunOnlySkips ==
    /\ \A n \in Nodes : ~Called(2, Creates, n, AllOuts)
    /\ ustatus = "done" =>
          /\ final.skipped = DiscoveryOrder(root)
          /\ final.success = <<>>

\* C7 as stated: whatever the first run and the lookups did
C7_SecondRunIdempotent ==
    (run = 2 /\ skip_existing) => SecondRunOnlySkips

\* no lookup of either run ended in an error
NoLookupError ==
    \A n \in Nodes, r \in {1, 2} : ~Called(r, Lookups, n, {"HttpError", "Exception"})

\* C7 amended: after a first run that reported nothing failed, and with no
\* failing lookup in either run, the second run creates nothing and skips all
C7_SecondRunIdempotentAmended ==
    (run = 2 /\ skip_existing /\ prev.failed = <<>> /\ NoLookupError)
        => (SecondRunOnlySkips /\ ustatus # "raised")

C7_Witness ==
    /\ run = 2
    /\ skip_existing
    /\ ustatus = "done"
    /\ root = "D1"
    /\ NoLookupError
    /\ prev = [success |-> <<"D1/a", "D1/b">>, failed |-> <<>>, skipped |-> <<>>]
    /\ final = [success |-> <<>>, failed |-> <<>>, skipped |-> <<"D1/a", "D1/b">>]

\* the files lying in a folder whose remote folder was resolved
FilesInResolved == {n \in FilesOf(root) : Dirname(n) # "" /\ folder_id[Dirname(n)] > 0}

\* an object of the file's name was under the resolved folder before the run
ExistedBefore(n) ==
    \E o \in remote : /\ o.id < FirstNewId
                      /\ o.name = Basename(n)
                      /\ o.parent = folder_id[Dirname(n)]

\* the clauses of C8 that hold as stated
C8_Rest(n) ==
    /\ (~ExistedBefore(n) /\ Called(1, {"create_file"}, n, {"ok"}))
          => OnlyIn(final, "success", n)
    /\ InList(n, final.failed) => Called(1, {"create_file"}, n, {"fail"})

\* C8 as stated, for the files the run reports an outcome for: a file whose
\* name exists under the resolved folder is skipped
C8_OutcomePerFile ==
    (ustatus = "done" /\ run = 1 /\ skip_existing) =>
        \A n \in FilesInResolved :
            /\ (ExistedBefore(n) /\ HasOutcome(final, n)) => OnlyIn(final, "skipped", n)
            /\ C8_Rest(n)

\* C8 amended: a file whose name exists under the resolved folder is skipped
\* when the orchestrator's lookup for it ends without error
C8_OutcomePerFileAmended ==
    (ustatus = "done" /\ run = 1 /\ skip_existing) =>
        \A n \in FilesInResolved :
            /\ (ExistedBefore(n) /\ Called(1, {"file_exists"}, n, {"found", "absent"}))
                  => OnlyIn(final, "skipped", n)
            /\ C8_Rest(n)

C8_Witness ==
    /\ ustatus = "done"
    /\ run = 1
    /\ skip_existing
    /\ root = "D1"
    /\ ExistedBefore("D1/a")
    /\ ~ExistedBefore("D1/b")
    /\ final = [success |-> <<"D1/b">>, failed |-> <<>>, skipped |-> <<"D1/a">>]

\* no call for a folder ended in a failure
NoFolderFailure ==
    \A n \in Nodes : ~Called(1, {"folder_exists", "create_folder"}, n, {"Exception", "fail"})

\* C9: whatever fails for one file, every other file of the tree gets its
\* outcome
C9_FileFailureIsLocal ==
    (Ended /\ run = 1 /\ NoFolderFailure) =>
        \A n \in FilesOf(root) :
            HasOutcome(final, n) \/ Called(1, Lookups, n, {"Exception"})

\* resolving or creating the remote folder of a directory failed
FolderFailed(d) ==
    \/ Called(1, {"create_folder"}, d, {"fail"})
    \/ Called(1, {"folder_exists"}, d, {"Exception"})

\* the items listed beside a path
Siblings(n) ==
    IF Dirname(n) = "" THEN {}
    ELSE {Children(Dirname(n))[i] : i \in 1..Len(Children(Dirname(n)))} \ {n}

\* C10: a directory whose remote folder cannot be resolved or created is in
\* failed, nothing below it is touched, every item beside it is processed
C10_FolderFailureIsLocal ==
    (Ended /\ run = 1) =>
        \A d \in Subtree(root) :
            (Kind(d) = "dir" /\ FolderFailed(d)) =>
                /\ InList(d, final.failed)
                /\ \A n \in Subtree(d) \ {d} : ~Called(1, AllOps, n, AllOuts)
                /\ \A n \in Siblings(d) :
                       HasOutcome(final, n) \/ Called(1, AllOps, n, AllOuts)

\* a step in which a lookup ends in HttpError
HttpErrorStep ==
    /\ Running
    /\ Top.at \in {"file_exists", "upload_file", "folder_exists"}
    /\ \E e \in log' \ log : e.out = "HttpError"

\* the step property of C11
C11_Step ==
    HttpErrorStep =>
        /\ ustatus' = ustatus
        /\ Len(stack') = Len(stack)
        /\ stack'[Len(stack)].results = Top.results
        /\ stack'[Len(stack)].at =
              CASE Top.at = "file_exists" -> "upload_file"
                [] Top.at = "upload_file" -> "transfer"
                [] OTHER -> "create"

\* C11: a lookup of file_exists or folder_exists that fails with a
\* remote-service error returns None and raises nothing: the orchestrator
\* goes on to upload the file or to create the folder
C11_LookupErrorIsNotFound == [][C11_Step]_vars

C11_Witness ==
    /\ ustatus = "done"
    /\ root = "D1"
    /\ Called(1, {"folder_exists"}, "D1", {"HttpError"})
    /\ Called(1, {"create_folder"}, "D1", {"ok"})
    /\ Called(1, {"file_exists"}, "D1/a", {"HttpError"})
    /\ Called(1, {"upload_file_exists"}, "D1/a", {"HttpError"})
    /\ Called(1, {"create_file"}, "D1/a", {"ok"})
    /\ InList("D1/a", final.success)

(***************************************************************************)
(* upload_file on its own: one call of SimpleDriveUploader.upload_file,    *)
(* with the chunk loop of the resumable upload spelled out.  failPlan is   *)
(* the behaviour of the remote service: the first failPlan attempts of the *)
(* chunked upload raise, every later attempt runs to completion.           *)
(***************************************************************************)
XInit ==
    /\ xpc = "start"
    /\ xskip \in BOOLEAN
    /\ xexisting \in BOOLEAN
    /\ total_size \in 0..MaxSize
    /\ failPlan \in 0..MAX_RETRIES
    /\ attempt = 0
    /\ waits = <<>>
    /\ previous_uploaded = 0
    /\ pbar = 0
    /\ xresult = "pending"
    /\ DRest
    /\ URest
    /\ ORest
    /\ MRest
    /\ LRest

\* lines 214-218: the lookup of upload_file; an existing file ends the call
XSkip ==
    /\ xpc = "start"
    /\ xskip /\ xexisting
    /\ xpc' = "returned"
    /\ xresult' = "id"
    /\ UNCHANGED <<xskip, xexisting, total_size, failPlan, attempt, waits,
                   previous_uploaded, pbar>>
    /\ UNCHANGED othersX

\* lines 230-250: the request is created and the progress bar opened
XBegin ==
    /\ xpc = "start"
    /\ ~(xskip /\ xexisting)
    /\ xpc' = "chunks"
    /\ attempt' = attempt + 1
    /\ previous_uploaded' = 0
    /\ pbar' = 0
    /\ UNCHANGED <<xskip, xexisting, total_size, failPlan, waits, xresult>>
    /\ UNCHANGED othersX

\* lines 267-272: a failed attempt is logged and None returned
AfterFailure == [pc |-> "returned", result |-> "None", waits |-> waits]

\* line 253 raising: next_chunk fails during an attempt the service rejects
XChunkFails ==
    /\ xpc = "chunks"
    /\ attempt <= failPlan
    /\ xpc' = AfterFailure.pc
    /\ xresult' = AfterFailure.result
    /\ waits' = AfterFailure.waits
    /\ UNCHANGED <<xskip, xexisting, total_size, failPlan, attempt,
                   previous_uploaded, pbar>>
    /\ UNCHANGED othersX

\* lines 253-257: next_chunk returns a progress status and no response
XChunkProgress(uploaded) ==
    /\ xpc = "chunks"
    /\ uploaded > previous_uploaded
    /\ uploaded < total_size
    /\ pbar' = pbar + (uploaded - previous_uploaded)
    /\ previous_uploaded' = uploaded
    /\ UNCHANGED <<xpc, xskip, xexisting, total_size, failPlan, attempt,
                   waits, xresult>>
    /\ UNCHANGED othersX

\* the end of the loop with lines 260-261 left out
FillBarNever(bar, uploaded, total) == bar

\* lines 260-261: the bar is brought up to the total
FillBar(bar, uploaded, total) ==
    IF uploaded < total THEN bar + (total - uploaded) ELSE bar

\* lines 253-265: next_chunk returns the response with no status; the bar is
\* filled up to the total and the id returned
XChunkLast ==
    /\ xpc = "chunks"
    /\ attempt > failPlan
    /\ pbar' = FillBar(pbar, previous_uploaded, total_size)
    /\ xpc' = "returned"
    /\ xresult' = "id"
    /\ UNCHANGED <<xskip, xexisting, total_size, failPlan, attempt, waits,
                   previous_uploaded>>
    /\ UNCHANGED othersX

XNext ==
    \/ XSkip
    \/ XBegin
    \/ XChunkFails
    \/ \E uploaded \in 1..MaxSize : XChunkProgress(uploaded)
    \/ XChunkLast

\* one call of upload_file
SpecXfer == XInit /\ [][XNext]_vars

\* C12: a transfer that fails on attempts 1 and 2 and would succeed on
\* attempt 3 returns a file id after exactly the two backoff waits
\* RETRY_DELAY * 2^0 and RETRY_DELAY * 2^1, and a transfer that fails on all
\* MAX_RETRIES attempts returns None after MAX_RETRIES attempts and no more.
C12_RetryWithBackoff ==
    (xpc = "returned" /\ attempt >= 1) =>
        /\ failPlan = MAX_RETRIES - 1 =>
              /\ xresult = "id"
              /\ attempt = MAX_RETRIES
              /\ waits = <<RETRY_DELAY * 2^0, RETRY_DELAY * 2^1>>
        /\ failPlan >= MAX_RETRIES =>
              /\ xresult = "None"
              /\ attempt = MAX_RETRIES

(***************************************************************************)
(* upload_to_google_drive called with the options of the upload command.   *)
(* Lines 448-449 read skip_existing and drive_service from the keyword     *)
(* arguments; nothing reads the others, and nothing opens the progress     *)
(* file, so the steps of the walk leave kwargs and ledger alone.           *)
(***************************************************************************)
OptRoots == {"M"}

\* a record of the progress file
Done(n, outcome) == [path |-> n, outcome |-> outcome]

\* what the progress file can hold when the call starts
Ledgers == SUBSET {Done("M/movie.mp4", "success"), Done("M/notes.txt", "success")}

OInit ==
    /\ root \in OptRoots
    /\ skip_existing \in BOOLEAN
    /\ kwargs \in Kwargs
    /\ ledger \in Ledgers
    /\ remote \in InitialRemotes(root)
    /\ nextId = FirstNewId
    /\ stack = <<Frame(root, RootId)>>
    /\ ustatus = "running"
    /\ final = NoResults
    /\ folder_id = [n \in Nodes |-> -1]
    /\ log = {}
    /\ run = 1
    /\ prev = NoResults
    /\ DRest
    /\ XRest
    /\ MRest
    /\ LRest

\* one upload with options
SpecOpt == OInit /\ [][UNext]_vars

\* C13: with dry_run set no files().create call, for a file or for a folder,
\* is ever issued, whatever the tree and the include and exclude patterns
C13_DryRunCreatesNothing ==
    kwargs.dry_run => \A e \in log : e.op \notin Creates

\* the suffix of a file name
Suffix(n) ==
    CASE n = "M/movie.mp4" -> ".mp4"
      [] n = "M/notes.txt" -> ".txt"
      [] OTHER -> ""

\* a shell pattern matches a path
PatternMatches(pat, n) ==
    CASE pat = "*.mp4" -> Suffix(n) = ".mp4"
      [] pat = "*.txt" -> Suffix(n) = ".txt"
      [] OTHER -> FALSE

\* the include and exclude patterns leave a path out
FilteredOut(n) ==
    \/ /\ kwargs.include_patterns # <<>>
       /\ \A i \in 1..Len(kwargs.include_patterns) :
              ~PatternMatches(kwargs.include_patterns[i], n)
    \/ \E i \in 1..Len(kwargs.exclude_patterns) :
              PatternMatches(kwargs.exclude_patterns[i], n)

\* C14: a file the patterns leave out causes no remote call, lookup or
\* transfer, is never reported failed, and is reported skipped by a run that
\* ends with nothing failed
C14_FilteredFileNeverContacts ==
    \A f \in FilesOf(root) :
        FilteredOut(f) =>
            /\ \A e \in log : e.node # f
            /\ ~InList(f, final.failed)
            /\ (ustatus = "done" /\ final.failed = <<>>) => InList(f, final.skipped)

\* the outcomes the activations on the stack have recorded so far
Recorded ==
    {Done(stack[i].results[key][j], key) :
        <<i, key, j>> \in {t \in (1..Len(stack)) \X {"success", "failed", "skipped"} \X (1..3) :
                              t[3] <= Len(stack[t[1]].results[t[2]])}}

\* C15: in resume mode a path the ledger records as success is reported
\* skipped without any lookup for it, and every outcome is in the ledger as
\* soon as it is recorded
C15_LedgerResume ==
    kwargs.use_progress =>
        /\ \A rec \in ledger :
              rec.outcome = "success" =>
                  /\ \A e \in log : ~(e.node = rec.path /\ e.op \in Lookups)
                  /\ (ustatus = "done" /\ final.failed = <<>>) =>
                         InList(rec.path, final.skipped)
        /\ Recorded \subseteq ledger

\* the step property of C16: what a call of download_torrent does with its
\* source, as the claim states it
C16_Step ==
    IsCall =>
        IF \/ ~StartsWith(source', "magnet:") /\ ~EndsWith(source', ".torrent")
           \/ EndsWith(source', ".torrent") /\ torrentFile' = "missing"
        THEN pc' = "Failed" /\ returned' = "None"
        ELSE pc' = "Submitted"

\* C16: download_torrent returns None without waiting for metadata when the
\* source neither starts with "magnet:" nor ends with ".torrent", and when it
\* ends with ".torrent" and no such file exists; every other source is
\* submitted to the engine
C16_SourceValidation == [][C16_Step]_vars

\* the step property of the amended C16
C16_StepAmended ==
    IsCall =>
        IF \/ ~StartsWith(source', "magnet:") /\ ~EndsWith(source', ".torrent")
           \/ /\ ~StartsWith(source', "magnet:")
              /\ EndsWith(source', ".torrent")
              /\ torrentFile' \in {"missing", "unreadable"}
           \/ ~addAccepted'
        THEN pc' = "Failed" /\ returned' = "None"
        ELSE pc' = "Submitted"

\* C16 amended: the call returns None without waiting for metadata when the
\* source neither starts with "magnet:" nor ends with ".torrent", when it does
\* not start with "magnet:", ends with ".torrent" and the file is missing or
\* cannot be read as a torrent, and when the engine refuses the job; every
\* other source is submitted
C16_SourceValidationAmended == [][C16_StepAmended]_vars

C16_Witness ==
    /\ pc = "Failed"
    /\ returned = "None"
    /\ source = <<"f", ".torrent">>
    /\ torrentFile = "missing"
    /\ addAccepted

(***************************************************************************)
(* main(): one run of the command line.  download_torrent is taken by the  *)
(* ways it can end in the download monitor above: a path after Completed,  *)
(* None after Failed, None after an interrupt of the polling loop, and a   *)
(* KeyboardInterrupt let out by an interrupt anywhere else.  The names     *)
(* upload_to_google_drive, PatternMatcher and ProgressTracker are bound    *)
(* nowhere in main.py (the import of line 13 is a comment), so reaching    *)
(* one of them raises NameError.                                           *)
(***************************************************************************)
Commands == {"none", "download", "upload", "status", "clear"}

\* the arguments the handlers test: --upload, --folder-id given,
\* --no-resume, and an --include or --exclude pattern given
Args == [upload : BOOLEAN, folder_id : BOOLEAN, no_resume : BOOLEAN,
         patterns : BOOLEAN]

\* how a call of download_torrent ends: what the caller gets and why
DownloadEnds == {<<"path", "completed">>, <<"None", "failed">>,
                 <<"None", "interrupted">>, <<"raised", "interrupted">>}

MInit ==
    /\ mpc = "start"
    /\ command \in Commands
    /\ args \in Args
    /\ ended = "none"
    /\ exit_code = -1
    /\ message = ""
    /\ DRest
    /\ URest
    /\ XRest
    /\ ORest
    /\ LRest

\* main returns a code
Exit(code, why, line) ==
    /\ mpc' = "exited"
    /\ exit_code' = code
    /\ ended' = why
    /\ message' = line
    /\ UNCHANGED <<command, args>>
    /\ UNCHANGED othersM

\* main, lines 256-259: no command
MainNoCommand ==
    /\ mpc = "start"
    /\ command = "none"
    /\ Exit(1, "failure", "Error: No command specified")

\* handle_download, lines 152-163: the argument check, then the call
HandleDownload ==
    /\ mpc = "start"
    /\ command = "download"
    /\ IF args.upload /\ ~args.folder_id
       THEN Exit(1, "failure", "--folder-id is required when using --upload")
       ELSE /\ mpc' = "download_torrent"
            /\ UNCHANGED <<command, args, ended, exit_code, message>>
            /\ UNCHANGED othersM

\* handle_download, lines 165-176 and 191, and main, lines 274-280:
\* download_torrent returns or lets a KeyboardInterrupt out
DownloadReturns(e) ==
    /\ mpc = "download_torrent"
    /\ CASE e = <<"raised", "interrupted">> ->
              Exit(130, "interrupt", "Operation cancelled by user")
         [] e = <<"None", "interrupted">> ->
              Exit(1, "interrupt", "Download failed or was cancelled")
         [] e = <<"None", "failed">> ->
              Exit(1, "failure", "Download failed or was cancelled")
         [] OTHER ->
              IF args.upload
              THEN /\ mpc' = "upload_to_google_drive"
                   /\ UNCHANGED <<command, args, ended, exit_code, message>>
                   /\ UNCHANGED othersM
              ELSE Exit(0, "success", "Download completed")

\* handle_download, line 176: the unbound name raises NameError, which the
\* except Exception clause of main turns into 1 (lines 281-283)
UploadAfterDownload ==
    /\ mpc = "upload_to_google_drive"
    /\ Exit(1, "failure", "Operation failed")

\* handle_upload, lines 201-211: ProgressTracker, PatternMatcher or
\* upload_to_google_drive, whichever is reached first, raises NameError
HandleUpload ==
    /\ mpc = "start"
    /\ command = "upload"
    /\ Exit(1, "failure", "Operation failed")

\* handle_status: 0 whether or not a session file is found
HandleStatus(found) ==
    /\ mpc = "start"
    /\ command = "status"
    /\ Exit(0, "success", IF found THEN "Found paused download session"
                                    ELSE "No paused download session found")

\* handle_clear: 0 when clear_session returns True, 1 otherwise
HandleClear(cleared) ==
    /\ mpc = "start"
    /\ command = "clear"
    /\ IF cleared THEN Exit(0, "success", "Download session cleared")
                  ELSE Exit(1, "failure", "Failed to clear session")

\* main, lines 274-280: a KeyboardInterrupt raised in a handler outside
\* download_torrent
MainInterrupt ==
    /\ mpc \in {"start", "upload_to_google_drive"}
    /\ command # "none"
    /\ Exit(130, "interrupt", "Operation cancelled by user")

MNext ==
    \/ MainNoCommand
    \/ HandleDownload
    \/ \E e \in DownloadEnds : DownloadReturns(e)
    \/ UploadAfterDownload
    \/ HandleUpload
    \/ \E found \in BOOLEAN : HandleStatus(found)
    \/ \E cleared \in BOOLEAN : HandleClear(cleared)
    \/ MainInterrupt

\* one run of main
SpecMain == MInit /\ [][MNext]_vars

\* C17: main returns 130 when the operation ended because of a user
\* interrupt, 1 when it ended in a failure and 0 when it succeeded
C17_ExitCodes ==
    mpc = "exited" =>
        exit_code = CASE ended = "interrupt" -> 130
                      [] ended = "failure" -> 1
                      [] OTHER -> 0

(***************************************************************************)
(* The polling loop of download_torrent on its own, lines 126-167, pass by *)
(* pass: the status snapshot taken, the ETA worked out from it, the save   *)
(* test on the epoch second, and the sleep.  eta_seconds is the quotient   *)
(* of two integers and is kept as the pair of them.                        *)
(***************************************************************************)
\* the bytes still wanted and the bytes already there in the snapshots tried
Remainings == {0, 1, 59, 60, 61, 90, 119, 120, 121, 3599, 3600, 3601, 5400,
               7199, 7200, 7201}
DoneBytes == {0, 10}

\* s = handle.status(), the fields the ETA reads
Snapshots ==
    {[total_wanted |-> dn + rem, total_done |-> dn, download_rate |-> r] :
        dn \in DoneBytes, rem \in Remainings, r \in 0..MaxRate}

\* a quotient n / d with d > 0
Quot(n, d) == [n |-> n, d |-> d]

\* q < k
Less(q, k) == q.n < k * q.d

\* q / k
Over(q, k) == Quot(q.n, q.d * k)

\* q % k for q >= 0
Mod(q, k) == Quot(q.n - k * q.d * (q.n \div (k * q.d)), q.d)

\* int(q) taken as rounding to the nearest integer
ToIntRounded(q) == (2 * q.n + q.d) \div (2 * q.d)

\* int(q) for q >= 0
ToInt(q) == q.n \div q.d

\* the three forms of eta_str and "N/A"
Eta(fmt, a, b) == [fmt |-> fmt, a |-> a, b |-> b]

\* lines 130-145: eta_str of a status snapshot
FormatEta(s) ==
    IF s.download_rate > 0
    THEN LET eta_seconds == Quot(s.total_wanted - s.total_done, s.download_rate) IN
         IF Less(eta_seconds, 60)
         THEN Eta("s", ToInt(eta_seconds), 0)
         ELSE IF Less(eta_seconds, 3600)
         THEN Eta("m s", ToInt(Over(eta_seconds, 60)), ToInt(Mod(eta_seconds, 60)))
         ELSE Eta("h m", ToInt(Over(eta_seconds, 3600)),
                  ToInt(Over(Mod(eta_seconds, 3600), 60)))
    ELSE Eta("N/A", 0, 0)

LInit ==
    /\ lpc = "polling"
    /\ lnow \in 0..9
    /\ since = 0
    /\ snapshot = NoStatus
    /\ eta_str = NoEta
    /\ DRest
    /\ URest
    /\ XRest
    /\ ORest
    /\ MRest

\* lines 127-167: one pass of the loop, taking d seconds
LoopPass(s, d) ==
    /\ lpc = "polling"
    /\ snapshot' = s
    /\ eta_str' = FormatEta(s)
    /\ since' = IF SaveDue(lnow) THEN d
                ELSE IF since + d > CheckpointPeriod THEN CheckpointPeriod + 1
                ELSE since + d
    /\ lnow' = (lnow + d) % 10
    /\ UNCHANGED lpc
    /\ UNCHANGED othersL

\* line 126: the job is seeding and the loop is left
LoopLeave ==
    /\ lpc = "polling"
    /\ lpc' = "left"
    /\ UNCHANGED <<lnow, since, snapshot, eta_str>>
    /\ UNCHANGED othersL

LNext ==
    \/ \E s \in Snapshots, d \in 1..MaxIter : LoopPass(s, d)
    \/ LoopLeave

\* the polling loop of one download
SpecLoop == LInit /\ [][LNext]_vars

\* k is the floor of n / d
IsFloor(k, n, d) == k * d <= n /\ n < (k + 1) * d

\* C18: the ETA is "N/A" at rate 0; otherwise, with eta = remaining / rate,
\* it is "<s>s" with s = floor(eta) below a minute, "<m>m <s>s" with
\* m = floor(eta / 60) and s = floor(eta mod 60) below an hour, and
\* "<h>h <m>m" with h = floor(eta / 3600) and m = floor((eta mod 3600) / 60)
\* from an hour on; 90 seconds give "1m 30s" and 5400 seconds "1h 30m"
C18_EtaFormat ==
    eta_str # NoEta =>
        LET rem == snapshot.total_wanted - snapshot.total_done
            rate == snapshot.download_rate
        IN  /\ IF rate = 0 THEN eta_str = Eta("N/A", 0, 0)
               ELSE IF rem < 60 * rate
               THEN /\ eta_str.fmt = "s"
                    /\ IsFloor(eta_str.a, rem, rate)
               ELSE IF rem < 3600 * rate
               THEN /\ eta_str.fmt = "m s"
                    /\ IsFloor(eta_str.a, rem, 60 * rate)
                    /\ eta_str.b \in 0..59
                    /\ IsFloor(60 * eta_str.a + eta_str.b, rem, rate)
               ELSE /\ eta_str.fmt = "h m"
                    /\ IsFloor(eta_str.a, rem, 3600 * rate)
                    /\ eta_str.b \in 0..59
                    /\ IsFloor(60 * eta_str.a + eta_str.b, rem, 60 * rate)
            /\ (rem = 90 /\ rate = 1) => eta_str = Eta("m s", 1, 30)
            /\ (rem = 5400 /\ rate = 1) => eta_str = Eta("h m", 1, 30)

C18_Witness ==
    /\ snapshot.total_wanted - snapshot.total_done = 7199
    /\ snapshot.total_done = 10
    /\ snapshot.download_rate = 2
    /\ eta_str = Eta("m s", 59, 59)

\* C20: while the polling loop runs, no more than CheckpointPeriod seconds
\* pass without a call of save_session, whatever each pass takes
C20_CheckpointEveryPeriod ==
    lpc = "polling" => since <= CheckpointPeriod

\* the paths of a tree in the order the walk comes to them: a directory
\* first, then what it holds, in listing order
RECURSIVE WalkAll(_, _)
WalkAll(ch, i) ==
    IF i > Len(ch) THEN <<>>
    ELSE <<ch[i]>> \o WalkAll(Children(ch[i]), 1) \o WalkAll(ch, i + 1)
WalkOrder(n) == <<n>> \o WalkAll(Children(n), 1)

\* where a path lies in a sequence that holds it
Pos(n, seq) == CHOOSE i \in 1..Len(seq) : seq[i] = n

\* the paths of a list all lie in the walk and come in its order
InWalkOrder(list, n) ==
    /\ \A i \in 1..Len(list) : InList(list[i], WalkOrder(n))
    /\ \A i, j \in 1..Len(list) :
          i < j => Pos(list[i], WalkOrder(n)) < Pos(list[j], WalkOrder(n))

\* a result holds each path once and each list in the order of the walk
UniqueAndOrdered(res, n) ==
    /\ \A m \in Nodes :
          Times(m, res.success) + Times(m, res.skipped) + Times(m, res.failed) <= 1
    /\ InWalkOrder(res.success, n)
    /\ InWalkOrder(res.skipped, n)
    /\ InWalkOrder(res.failed, n)

\* C19: in every result upload_to_drive returns, each path appears at most
\* once across success, skipped and failed, and each list is in the order in
\* which the walk discovered its paths
C19_UniqueInDiscoveryOrder ==
    /\ ustatus = "done" => UniqueAndOrdered(final, root)
    /\ \A i \in 1..Len(stack) :
          stack[i].at = "return" => UniqueAndOrdered(stack[i].results, stack[i].path)

\* the step property of C21
C21_Step ==
    xpc = "chunks" =>
        /\ pbar' >= pbar
        /\ (xpc' = "returned" /\ xresult' = "id") => pbar' = total_size

SpecDLFair ==
    /\ DInit
    /\ [][DNext]_vars
    /\ WF_vars(EnterMetadataWait)
    /\ WF_vars(\E d \in 1..MaxIter : MetadataPoll(d))
    /\ WF_vars(\E d \in 1..MaxIter : TransferPoll(d))

\* C22: once the engine has reported the metadata and the job fully
\* transferred, a call that is not interrupted comes to return the destination
\* path, and a path is never returned while the job is not fully transferred
C22_CompletesWhenTransferred ==
    /\ [](returned = "path" => (seeding /\ pc = "Completed"))
    /\ (pc \in Active /\ hasMetadata /\ seeding) ~> (pc \in {"Completed", "Interrupted"})

C22_Witness ==
    /\ pc = "Completed"
    /\ returned = "path"
    /\ seeding
    /\ hasMetadata
    /\ source = <<"magnet:", "x">>
    /\ result = <<"downloads", "/", "iso">>

\* the transfers in flight: the activations of upload_to_drive for a file
\* that have not returned
InFlight == Cardinality({i \in 1..Len(stack) : Kind(stack[i].path) = "file"})

\* C23: at every moment of a run at most one file transfer is in flight in
\* serial mode, and at most MAX_WORKERS when parallel upload is requested
C23_TransfersInFlight ==
    InFlight <= IF kwargs.parallel THEN MAX_WORKERS ELSE 1

C23_Witness ==
    /\ kwargs.parallel
    /\ Len(stack) = 2
    /\ Top.path = "M/notes.txt"
    /\ Top.at = "transfer"
    /\ InFlight = 1
    /\ Called(1, {"create_file"}, "M/movie.mp4", {"ok"})

\* a step of the polling loop that saves the session (lines 164-165)
IsCheckpoint == pc = "Transferring" /\ pc' = "Transferring" /\ SaveDue(clock)

\* a step that ends the call by an interrupt
IsInterrupt == pc \in Active /\ pc' = "Interrupted"

\* a step that ends the call with the download complete
IsCompletion == pc = "Transferring" /\ pc' = "Completed"

\* a call with the resume flag off starts from an empty session and leaves
\* the session file unread and as it was
StartsEmpty ==
    IsCall => /\ ses' = FreshSession
              /\ loadLog' = "none"
              /\ sessionFile' = sessionFile

\* the step property of C24
C24_Step ==
    ~auto_resume' =>
        /\ StartsEmpty
        /\ sessionFile' # sessionFile => (IsCheckpoint \/ IsInterrupt)

\* C24: with auto_resume off the download starts from an empty session
\* whatever the session file holds, and the session file is neither read nor
\* changed before the first checkpoint or interrupt of the run
C24_NoResumeLeavesFile == [][C24_Step]_vars

\* the step property of the amended C24
C24_StepAmended ==
    ~auto_resume' =>
        /\ StartsEmpty
        /\ sessionFile' # sessionFile => (IsCheckpoint \/ IsInterrupt \/ IsCompletion)

\* C24 amended: with auto_resume off the download starts from an empty
\* session whatever the session file holds, and the session file is neither
\* read nor changed before the first checkpoint, interrupt or completion of
\* the run
C24_NoResumeLeavesFileAmended == [][C24_StepAmended]_vars

C24_Witness ==
    /\ pc = "Transferring"
    /\ ~auto_resume
    /\ ses = FreshSession
    /\ sessionFile = [exists |-> TRUE, data |-> <<120>>]
    /\ loadLog = "none"

\* the remote id a directory itself was given as parent
ParentIdOf(d) == IF Dirname(d) = "" THEN RootId ELSE folder_id[Dirname(d)]

\* C25: a remote call for a child of a directory D is made only after the
\* remote folder of D is resolved or created, and it uses the id of that
\* folder as its parent, never the id D itself was given as parent
C25_ChildrenUnderOwnFolder ==
    \A e \in log :
        (e.run = run /\ Dirname(e.node) # "") =>
            /\ folder_id[Dirname(e.node)] > 0
            /\ e.parent = folder_id[Dirname(e.node)]
            /\ e.parent # ParentIdOf(Dirname(e.node))

C25_Witness ==
    /\ root = "D2"
    /\ ustatus = "done"
    /\ folder_id["D2"] > 0
    /\ folder_id["D2/S"] > 0
    /\ \E e \in log : e.node = "D2/S/c" /\ e.op = "create_file" /\ e.out = "ok"
                      /\ e.parent = folder_id["D2/S"]
    /\ \E e \in log : e.node = "D2/a" /\ e.op = "file_exists"
                      /\ e.parent = folder_id["D2"]

\* every file a result reports as success had a create-file call issued for
\* it that completed in this run
SuccessWasCreated(res) ==
    \A i \in 1..Len(res.success) :
        Kind(res.success[i]) = "file" => Called(run, {"create_file"}, res.success[i], {"ok"})

\* C26: a file is in the success list only if a create-file call for it was
\* issued and completed in the same run, whatever the lookups returned
C26_SuccessMeansCreated ==
    /\ SuccessWasCreated(final)
    /\ \A i \in 1..Len(stack) : SuccessWasCreated(stack[i].results)

\* a call that ends because its source is invalid or its torrent file missing
EndsOnSource ==
    /\ IsCall
    /\ pc' = "Failed"
    /\ ~StartsWith(source', "magnet:")
    /\ ~EndsWith(source', ".torrent") \/ torrentFile' = "missing"

\* such a call hands no job to the engine
SubmitsNothing == engineName' = engineName /\ hasMetadata' = hasMetadata

\* the step property of C27
C27_Step ==
    EndsOnSource => (SubmitsNothing /\ sessionFile' = sessionFile)

\* C27: a call that ends because the source is invalid or the torrent file is
\* missing submits no job and leaves the session file as it was before the
\* call, whatever the file held and whatever auto_resume is
C27_RejectedSourceLeavesFile == [][C27_Step]_vars

\* the step property of the amended C27
C27_StepAmended ==
    EndsOnSource =>
        /\ SubmitsNothing
        /\ sessionFile' = IF auto_resume' /\ Unusable(sessionFile) THEN NoFile
                          ELSE sessionFile

\* C27 amended: such a call submits no job and leaves the session file as it
\* was, except that with auto_resume set an empty or undecodable session file
\* has been removed by load_session before the source is looked at
C27_RejectedSourceLeavesFileAmended == [][C27_StepAmended]_vars

C27_Witness ==
    /\ pc = "Failed"
    /\ returned = "None"
    /\ source = <<"x">>
    /\ auto_resume
    /\ ncalls = 1
    /\ loadLog = "Failed to load session"
    /\ sessionFile = NoFile

\* the step property of C28: what the load_session of a call with auto_resume
\* does to the session file
C28_Step ==
    (IsCall /\ auto_resume') =>
        /\ Unusable(sessionFile) =>
              /\ sessionFile' = NoFile
              /\ ~get_download_status(sessionFile')
              /\ load_session(sessionFile') =
                     [ses |-> FreshSession, file |-> NoFile, exc |-> "none", log |-> "none"]
        /\ (sessionFile.exists /\ ~Unusable(sessionFile)) =>
              /\ loadLog' = "Session loaded"
              /\ sessionFile' = sessionFile

\* C28: after load_session has rejected an empty or invalid session file the
\* file is gone, so get_download_status reports no paused session and a later
\* load_session starts fresh without meeting the file again; a session file
\* that loads is left as it was
C28_RejectedFileIsRemoved == [][C28_Step]_vars

C28_Witness ==
    /\ pc = "Submitted"
    /\ auto_resume
    /\ ncalls = 2
    /\ loadLog = "Failed to load session"
    /\ ~get_download_status(sessionFile)
    /\ ses = FreshSession

====
